---- MODULE Spec2Model ----
(***************************************************************************)
(* Model of sytralrt: the three feed loaders (src/loader.go) and the       *)
(* process that runs them (src/cmd/sytral-rt/main.go).                     *)
(*                                                                         *)
(* A delimited file is the sequence of records encoding/csv reads from it; *)
(* a record keeps what the code looks at: its position in the file (id),   *)
(* its number of fields (nf), whether the feed's consumer accepts it (ok)  *)
(* and the batch the remote source wrote it in (tag).                      *)
(***************************************************************************)
EXTENDS Integers, Sequences, FiniteSets, TLC

\* ------------------------------------------------------------------ bounds
MaxRecords == 3
MaxCycles == 5
MaxEquipments == 2

\* --------------------------------------------------------------- constants
DeparturesNbFields == 8
ParkingsNbFields == 0
DisableBelowMs == 1000

Feeds == {"departures", "parkings", "equipments"}
Nil == "nil"
Tags == {1, 2}
FieldCounts == {7, 8}
Readers == {"r1"}

\* ------------------------------------------------------------------ inputs
\* The records of one file: written in one batch, numbered in file order.
LineKinds == [nf : FieldCounts, ok : BOOLEAN]

MkFile(tag, kinds) ==
    [i \in 1..Len(kinds) |-> [id |-> i, nf |-> kinds[i].nf, ok |-> kinds[i].ok, tag |-> tag]]

SeqsUpTo(S, n) == UNION {[1..k -> S] : k \in 0..n}

Files == {MkFile(t, ks) : t \in Tags, ks \in SeqsUpTo(LineKinds, MaxRecords)}

\* ------------------------------------------------------- encoding/csv Reader
\* reader.Read(): the next record, io.EOF at the end, ErrFieldCount when the
\* record's field count differs from FieldsPerRecord (> 0: the given count,
\* 0: the count of the first record read, < 0: no check).
ReaderRead(reader) ==
    IF reader.pos > Len(reader.file)
    THEN [line |-> Nil, err |-> "EOF", reader |-> reader]
    ELSE LET line == reader.file[reader.pos]
             fpr  == IF reader.FieldsPerRecord = 0 THEN line.nf ELSE reader.FieldsPerRecord
             nxt  == [reader EXCEPT !.pos = @ + 1, !.FieldsPerRecord = fpr]
         IN  IF fpr > 0 /\ line.nf # fpr
             THEN [line |-> line, err |-> "ErrFieldCount", reader |-> nxt]
             ELSE [line |-> line, err |-> Nil, reader |-> nxt]

NewReader(file, options) ==
    [file |-> file, pos |-> 1, FieldsPerRecord |-> options.nbFields]

\* ------------------------------------------------------------- LineConsumer
\* A consumer turns each line it accepts into a typed record (the line's
\* position and batch) and accumulates them; calls is the order in which its
\* two methods were invoked (the id of the line for Consume).
NewRecord(line) == [id |-> line.id, tag |-> line.tag]

ConsumeCall(line) == [op |-> "Consume", id |-> line.id]

TerminateCall == [op |-> "Terminate", id |-> 0]

NewConsumer == [data |-> <<>>, calls |-> <<>>]

Consume(consumer, line) ==
    IF line.ok
    THEN [consumer |-> [data  |-> Append(consumer.data, NewRecord(line)),
                        calls |-> Append(consumer.calls, ConsumeCall(line))],
          err |-> Nil]
    ELSE [consumer |-> [consumer EXCEPT !.calls = Append(@, ConsumeCall(line))],
          err |-> "ErrConsume"]

Terminate(consumer) == [consumer EXCEPT !.calls = Append(@, TerminateCall)]

\* time.LoadLocation("Europe/Paris"): fails without a timezone database.
LoadLocation(tz) == IF tz THEN Nil ELSE "ErrLocation"

\* The loop with skipFirstLine never reset: every record is skipped.
RECURSIVE LoadLoopKeepsSkipping(_, _, _)
LoadLoopKeepsSkipping(reader, consumer, skipFirstLine) ==
    LET r == ReaderRead(reader) IN
    IF r.err = "EOF" THEN [err |-> Nil, consumer |-> Terminate(consumer)]
    ELSE IF r.err # Nil THEN [err |-> r.err, consumer |-> consumer]
    ELSE IF skipFirstLine THEN LoadLoopKeepsSkipping(r.reader, consumer, skipFirstLine)
    ELSE LET c == Consume(consumer, r.line) IN
         IF c.err # Nil THEN [err |-> c.err, consumer |-> c.consumer]
         ELSE LoadLoopKeepsSkipping(r.reader, c.consumer, FALSE)

\* The loop leaving by break on a Consume error: Terminate is then called
\* before the error is returned.
RECURSIVE LoadLoopBreaksOnError(_, _, _)
LoadLoopBreaksOnError(reader, consumer, skipFirstLine) ==
    LET r == ReaderRead(reader) IN
    IF r.err = "EOF" THEN [err |-> Nil, consumer |-> Terminate(consumer)]
    ELSE IF r.err # Nil THEN [err |-> r.err, consumer |-> consumer]
    ELSE IF skipFirstLine THEN LoadLoopBreaksOnError(r.reader, consumer, FALSE)
    ELSE LET c == Consume(consumer, r.line) IN
         IF c.err # Nil THEN [err |-> c.err, consumer |-> Terminate(c.consumer)]
         ELSE LoadLoopBreaksOnError(r.reader, c.consumer, FALSE)

\* The for loop of LoadDataWithOptions, one iteration per call.
RECURSIVE LoadLoop(_, _, _)
LoadLoop(reader, consumer, skipFirstLine) ==
    LET r == ReaderRead(reader) IN
    IF r.err = "EOF" THEN [err |-> Nil, consumer |-> Terminate(consumer)]
    ELSE IF r.err # Nil THEN [err |-> r.err, consumer |-> consumer]
    ELSE IF skipFirstLine THEN LoadLoop(r.reader, consumer, FALSE)
    ELSE LET c == Consume(consumer, r.line) IN
         IF c.err # Nil THEN [err |-> c.err, consumer |-> c.consumer]
         ELSE LoadLoop(r.reader, c.consumer, FALSE)

LoadDataWithOptions(file, consumer, options, tz) ==
    IF LoadLocation(tz) # Nil
    THEN [err |-> LoadLocation(tz), consumer |-> consumer]
    ELSE LoadLoop(NewReader(file, options), consumer, options.skipFirstLine)

\* LoadData with the field count taken from the first record instead of 8.
LoadDataFirstRecordCount(file, consumer, tz) ==
    LoadDataWithOptions(file, consumer, [nbFields |-> 0, skipFirstLine |-> FALSE], tz)

LoadData(file, consumer, tz) ==
    LoadDataWithOptions(file, consumer,
                        [nbFields |-> DeparturesNbFields, skipFirstLine |-> FALSE], tz)

\* ------------------------------------------------------------ equipment XML
\* A document: the charset its declaration names, whether it is well-formed,
\* the header (Info: a date and an hour string, kept as their numeric parts)
\* and the hierarchy lines -> stations -> equipments.
Charsets == {"UTF-8", "ISO-8859-1", "iso-8859-1", "UTF-16"}
Statuses == {"up", "down"}
EquipmentIDs == {1, 2}
Equipments == [ID : EquipmentIDs, status : Statuses, ok : BOOLEAN]
Dates == {<<2024, 3, 10>>, <<2024, 3, 11>>, <<2024, 2, 30>>}
Hours == {<<7, 15, 30>>, <<24, 0, 0>>}
Infos == [Date : Dates, Hour : Hours]

\* A getCharsetReader that hands the input back for any charset.
getCharsetReaderPassesThrough(charset) == Nil

\* getCharsetReader: the decoder asks for a reader for every declared
\* charset other than UTF-8.
getCharsetReader(charset) ==
    IF charset = "ISO-8859-1" THEN Nil ELSE "Unknown Charset"

\* decoder.Decode(&root)
Decode(doc) ==
    IF doc.charset # "UTF-8" /\ getCharsetReader(doc.charset) # Nil
    THEN [err |-> getCharsetReader(doc.charset), root |-> Nil]
    ELSE IF ~doc.wellFormed THEN [err |-> "ErrSyntax", root |-> Nil]
    ELSE [err |-> Nil, root |-> [Info |-> doc.Info, Lines |-> doc.Lines]]

IsLeap(y) == (y % 4 = 0 /\ y % 100 # 0) \/ y % 400 = 0

DaysIn(y, m) ==
    IF m = 2 THEN (IF IsLeap(y) THEN 29 ELSE 28)
    ELSE IF m \in {4, 6, 9, 11} THEN 30 ELSE 31

\* time.ParseInLocation("2006-01-02", s, location)
ParseDate(s) ==
    IF s[2] \in 1..12 /\ s[3] \in 1..DaysIn(s[1], s[2])
    THEN [err |-> Nil, year |-> s[1], month |-> s[2], day |-> s[3]]
    ELSE [err |-> "ErrParseDate", year |-> 0, month |-> 0, day |-> 0]

\* time.ParseInLocation("15:04:05", s, location): a time on January 1, year 0
ParseHour(s) ==
    IF s[1] \in 0..23 /\ s[2] \in 0..59 /\ s[3] \in 0..59
    THEN [err |-> Nil, year |-> 0, month |-> 1, day |-> 1,
          hour |-> s[1], min |-> s[2], sec |-> s[3]]
    ELSE [err |-> "ErrParseHour", year |-> 0, month |-> 0, day |-> 0,
          hour |-> 0, min |-> 0, sec |-> 0]

\* time.Date's normalisation of a month beyond December and of a day beyond
\* the end of its month.
RECURSIVE NormDay(_, _, _)
NormDay(y, m, d) ==
    IF d <= DaysIn(y, m) THEN <<y, m, d>>
    ELSE IF m = 12 THEN NormDay(y + 1, 1, d - DaysIn(y, m))
    ELSE NormDay(y, m + 1, d - DaysIn(y, m))

NormDate(y, m, d) == NormDay(y + ((m - 1) \div 12), ((m - 1) % 12) + 1, d)

\* The day of March on which Europe/Paris puts its clocks forward, from 02:00
\* to 03:00 (the rule in force since 1996): the last Sunday of the month.
LastSundayOfMarch(y) == 31 - ((y + (y \div 4) - (y \div 100) + (y \div 400) + 33) % 7)

\* time.Date(year, month, day, hour, min, sec, 0, location) in Europe/Paris:
\* the date is normalised, and a time of day that the zone skips comes out
\* one hour later, since the offset found for it is the one before the change.
timeDate(y, m, d, h, mi, s) ==
    LET n    == NormDate(y, m, d)
        skip == n[1] >= 1996 /\ n[2] = 3 /\ n[3] = LastSundayOfMarch(n[1]) /\ h = 2
    IN  [year |-> n[1], month |-> n[2], day |-> n[3],
         hour |-> IF skip THEN h + 1 ELSE h, min |-> mi, sec |-> s]

\* t.AddDate(years, months, days)
AddDate(t, years, months, days) ==
    timeDate(t.year + years, t.month + months, t.day + days, t.hour, t.min, t.sec)

\* CalculateDate adding the month of the date, not one less.
CalculateDateMonthNotShifted(info) ==
    LET date == ParseDate(info.Date)
        hour == ParseHour(info.Hour)
    IN  IF date.err # Nil THEN [err |-> date.err, date |-> Nil]
        ELSE IF hour.err # Nil THEN [err |-> hour.err, date |-> Nil]
        ELSE [err |-> Nil,
              date |-> AddDate(hour, date.year, date.month, date.day - 1)]

CalculateDate(info) ==
    LET date == ParseDate(info.Date)
        hour == ParseHour(info.Hour)
    IN  IF date.err # Nil THEN [err |-> date.err, date |-> Nil]
        ELSE IF hour.err # Nil THEN [err |-> hour.err, date |-> Nil]
        ELSE [err |-> Nil,
              date |-> AddDate(hour, date.year, date.month - 1, date.day - 1)]

\* NewEquipmentDetail(e, updatedAt, location)
NewEquipmentDetail(e, updatedAt) ==
    IF e.ok
    THEN [err |-> Nil, ed |-> [ID |-> e.ID, status |-> e.status, updatedAt |-> updatedAt]]
    ELSE [err |-> "ErrEquipment", ed |-> Nil]

\* The map written only when the key is new: the first occurrence stays.
MapPutIfAbsent(m, k, v) ==
    [x \in DOMAIN m \cup {k} |-> IF x \in DOMAIN m THEN m[x] ELSE v]

\* equipments[ed.ID] = *ed
MapPut(m, k, v) == [x \in DOMAIN m \cup {k} |-> IF x = k THEN v ELSE m[x]]

\* The equipment elements in the order the three nested range loops visit them.
RECURSIVE Flatten(_)
Flatten(ss) == IF ss = <<>> THEN <<>> ELSE Head(ss) \o Flatten(Tail(ss))

Traversal(lines) ==
    Flatten([i \in 1..Len(lines) |->
        Flatten([j \in 1..Len(lines[i].Stations) |-> lines[i].Stations[j].Equipments])])

\* The body of the innermost loop, over the traversal.
RECURSIVE EquipmentLoop(_, _, _)
EquipmentLoop(es, equipments, updatedAt) ==
    IF es = <<>> THEN [err |-> Nil, equipments |-> equipments]
    ELSE LET n == NewEquipmentDetail(Head(es), updatedAt) IN
         IF n.err # Nil THEN [err |-> n.err, equipments |-> equipments]
         ELSE EquipmentLoop(Tail(es), MapPut(equipments, n.ed.ID, n.ed), updatedAt)

\* The returned slice holds the map's values in no particular order: a set.
LoadXmlData(doc, tz) ==
    IF LoadLocation(tz) # Nil THEN [err |-> LoadLocation(tz), out |-> {}]
    ELSE LET d == Decode(doc) IN
         IF d.err # Nil THEN [err |-> d.err, out |-> {}]
         ELSE LET u == CalculateDate(d.root.Info) IN
              IF u.err # Nil THEN [err |-> u.err, out |-> {}]
              ELSE LET l == EquipmentLoop(Traversal(d.root.Lines), <<>>, u.date) IN
                   IF l.err # Nil THEN [err |-> l.err, out |-> {}]
                   ELSE [err |-> Nil,
                         out |-> {l.equipments[k] : k \in DOMAIN l.equipments}]

\* The documents: a header that fails before the hierarchy is looked at, or
\* a sound header over every hierarchy of at most MaxEquipments elements.
\* A hierarchy is its elements in document order, each with the break that
\* precedes it: the same station, a new station of the line, or a new line.
Breaks == {"same", "station", "line"}

RECURSIVE Build(_, _, _)
Build(es, bs, i) ==
    IF i > Len(es) THEN <<>>
    ELSE LET rest == Build(es, bs, i + 1) IN
         IF i = Len(es) \/ bs[i + 1] = "line"
         THEN <<[Stations |-> <<[Equipments |-> <<es[i]>>]>>]>> \o rest
         ELSE IF bs[i + 1] = "station"
         THEN <<[Stations |-> <<[Equipments |-> <<es[i]>>]>> \o Head(rest).Stations]>>
              \o Tail(rest)
         ELSE <<[Stations |->
                   <<[Equipments |-> <<es[i]>> \o Head(rest).Stations[1].Equipments]>>
                   \o Tail(Head(rest).Stations)]>>
              \o Tail(rest)

Hierarchies ==
    UNION {{Build(es, bs, 1) : es \in [1..n -> Equipments], bs \in [1..n -> Breaks]}
           : n \in 0..MaxEquipments}

Docs ==
    [charset : Charsets, wellFormed : BOOLEAN, Info : Infos, Lines : {<<>>}]
    \cup [charset : {"UTF-8", "ISO-8859-1"}, wellFormed : {TRUE},
          Info : {i \in Infos : CalculateDate(i).err = Nil}, Lines : Hierarchies]

\* ------------------------------------------------------------------ Config
\* A location string is kept as the pieces url.Parse looks at: the text
\* before the first colon, the colon, and the rest; "" is the empty sequence.
FeedOrder == <<"departures", "parkings", "equipments">>

EmptyLocation == <<>>

SftpLocation(f) == <<"sftp", ":", "//sytral:pass@host:22/", f>>

FileLocation(f) == <<"file", ":", "///data/", f>>

FtpLocation(f) == <<"ftp", ":", "//host/", f>>

BadLocation(f) == <<":", "//host/", f>>

\* The zero url.URL.
NoURL == [Scheme |-> ""]

\* url.Parse: a string that begins with a colon has no protocol scheme, which
\* is an error; the scheme is what precedes the first colon, if any.
urlParse(str) ==
    IF str = <<>> THEN [err |-> Nil, url |-> NoURL]
    ELSE IF Head(str) = ":" THEN [err |-> "missing protocol scheme", url |-> NoURL]
    ELSE IF Len(str) >= 2 /\ str[2] = ":" THEN [err |-> Nil, url |-> [Scheme |-> str[1]]]
    ELSE [err |-> Nil, url |-> NoURL]

noneOf(args) == \A i \in 1..Len(args) : args[i] = EmptyLocation

\* logrus.ParseLevel
ParseLevel(lvl) ==
    IF lvl \in {"panic", "fatal", "error", "warn", "warning", "info", "debug", "trace"}
    THEN Nil ELSE "not a valid logrus Level"

\* The range loop of GetConfig over a map keyed by the location strings: of
\* the feeds that share a string, the last of the literal owns the entry, and
\* only its URI field is written.
OwnsEntry(flags, i) ==
    \A j \in (i + 1)..Len(FeedOrder) : flags.URIStr[FeedOrder[j]] # flags.URIStr[FeedOrder[i]]

ParsedURI(flags, i) ==
    LET u == urlParse(flags.URIStr[FeedOrder[i]]) IN
    IF OwnsEntry(flags, i) /\ u.err = Nil THEN u.url ELSE NoURL

\* GetConfig on the values of the flags and of the environment: flags.unmarshal
\* is the error of viper.Unmarshal on them.
GetConfigOf(flags) ==
    IF flags.unmarshal # Nil THEN [config |-> flags, err |-> flags.unmarshal]
    ELSE IF noneOf([i \in 1..Len(FeedOrder) |-> flags.URIStr[FeedOrder[i]]])
    THEN [config |-> flags, err |-> "no data provided at all"]
    ELSE [config |-> [flags EXCEPT !.URI =
                         [f \in Feeds |->
                             ParsedURI(flags, CHOOSE i \in 1..Len(FeedOrder) : FeedOrder[i] = f)]],
          err |-> Nil]

\* ------------------------------------------------------------------ getFile
\* src is what the remote host or the disk answers when asked: an error or
\* the bytes. opened tells what the call opened to ask.
getFileWithFS(uri, src) == [err |-> src.err, file |-> src.file, opened |-> "file"]

getFileWithSftp(uri, src) == [err |-> src.err, file |-> src.file, opened |-> "connection"]

\* getFile whose last branch falls back on the file system.
getFileDefaultsToFS(uri, src) ==
    IF uri.Scheme = "sftp" THEN getFileWithSftp(uri, src)
    ELSE getFileWithFS(uri, src)

getFile(uri, src) ==
    IF uri.Scheme = "sftp" THEN getFileWithSftp(uri, src)
    ELSE IF uri.Scheme = "file" THEN getFileWithFS(uri, src)
    ELSE [err |-> "Unsupported protocols", file |-> <<>>, opened |-> "none"]

\* ------------------------------------------------------------------- state
VARIABLES
    config,   \* the Config of main: locations, refresh intervals (ms), log level
    mainpc,   \* where main is
    loop,     \* where each feed's background loop is
    retr,     \* each feed's getFile call: not running, running, or stalled
    manager,  \* the DataManager: the snapshot of each feed
    metrics,  \* per feed, the error counter and the number of observed durations
    last,     \* the refresh cycle that returned last: feed, error, consumer calls,
              \* and what its getFile opened
    got,      \* the records of the collection each reader's last get returned
    input     \* the bytes the remote source holds, when a specification fixes them

vars == <<config, mainpc, loop, retr, manager, metrics, last, got, input>>

Intervals == {500, 30000}
NoInput == [feed |-> "none", res |-> Nil, tz |-> TRUE]
NoCycle == [feed |-> "none", err |-> Nil, calls |-> <<>>, opened |-> "none"]
NoGet == [feed |-> "none", data |-> {}]

\* What the source of a feed answers to getFile, with whether the host has a
\* timezone database (tz). Without one every load fails the same way, whatever
\* the bytes.
RetrievalError == [err |-> "ErrRetrieval", file |-> <<>>]

InputsOver(feed, contents) ==
    {[feed |-> feed, res |-> RetrievalError, tz |-> TRUE],
     [feed |-> feed, res |-> [err |-> Nil, file |-> <<>>], tz |-> FALSE]}
    \cup {[feed |-> feed, res |-> [err |-> Nil, file |-> c], tz |-> TRUE] : c \in contents}

\* Every input of the bounded sets, for the cycles checked one at a time.
AllInputs ==
    InputsOver("departures", Files) \cup InputsOver("parkings", Files)
    \cup InputsOver("equipments", Docs)

\* The inputs of the whole program's cycles: a departures file of no line or
\* of two, a parkings file of a header and no line or two, an equipment
\* document of no element or of two; each loadable or not.
GoodLine == [nf |-> 8, ok |-> TRUE]

ShortLines == {<<>>} \cup {<<GoodLine, [nf |-> n, ok |-> TRUE]>> : n \in FieldCounts}

ValidInfos == {i \in Infos : CalculateDate(i).err = Nil}

ShortDocs ==
    [charset : {"UTF-8"}, wellFormed : {TRUE}, Info : ValidInfos,
     Lines : {<<>>, Build(<<[ID |-> 1, status |-> "up", ok |-> TRUE],
                            [ID |-> 2, status |-> "up", ok |-> TRUE]>>,
                          <<"line", "line">>, 1)}]
    \cup [charset : {"UTF-16"}, wellFormed : {TRUE}, Info : ValidInfos, Lines : {<<>>}]

DeparturesInputs ==
    InputsOver("departures", {MkFile(t, ks) : t \in Tags, ks \in ShortLines})

ParkingsInputs ==
    InputsOver("parkings",
               {<<>>} \cup {MkFile(t, <<GoodLine>> \o ks) : t \in Tags, ks \in ShortLines})

EquipmentsInputs == InputsOver("equipments", ShortDocs)

Inputs(f) ==
    IF f = "departures" THEN DeparturesInputs
    ELSE IF f = "parkings" THEN ParkingsInputs ELSE EquipmentsInputs

\* -------------------------------------------------------------- DataManager
NewDataManager == [departures |-> <<>>, parkings |-> <<>>, equipments |-> {}]

UpdateDepartures(m, departures) == [m EXCEPT !.departures = departures]

UpdateParkings(m, parkings) == [m EXCEPT !.parkings = parkings]

UpdateEquipments(m, equipments) == [m EXCEPT !.equipments = equipments]

GetSnapshot(m, f) == m[f]

\* The records of a collection: of the sequence of a delimited feed, or of
\* the unordered collection of equipments.
Records(f, data) == IF f = "equipments" THEN data ELSE {data[i] : i \in 1..Len(data)}

\* ------------------------------------------------------------------ metrics
Inc(mt, f) == [mt EXCEPT ![f].errors = @ + 1]

Observe(mt, f) == [mt EXCEPT ![f].durations = @ + 1]

\* -------------------------------------------------------- the three Refresh
\* Each takes the store and the metrics as they are, and what getFile
\* returned; each gives the store and the metrics as it leaves them, the
\* error it returns and the calls its consumer received.
\* A departures consumer kept from one cycle to the next: it still holds what
\* the previous cycle handed to the store.
keptDepartureLineConsumer == [data |-> manager.departures, calls |-> <<>>]

makeDepartureLineConsumer == NewConsumer

makeParkingLineConsumer == NewConsumer

\* RefreshDepartures with UpdateDepartures called before the error of LoadData
\* is looked at.
RefreshDeparturesUpdateFirst(m, mt, res, tz) ==
    IF res.err # Nil
    THEN [manager |-> m, metrics |-> Inc(mt, "departures"), err |-> res.err, calls |-> <<>>]
    ELSE LET r == LoadData(res.file, makeDepartureLineConsumer, tz) IN
         IF r.err # Nil
         THEN [manager |-> UpdateDepartures(m, r.consumer.data),
               metrics |-> Inc(mt, "departures"),
               err |-> r.err, calls |-> r.consumer.calls]
         ELSE [manager |-> UpdateDepartures(m, r.consumer.data),
               metrics |-> Observe(mt, "departures"),
               err |-> Nil, calls |-> r.consumer.calls]

\* RefreshDepartures with a consumer that outlives the cycle: what it hands
\* to the store is what the store had, followed by the records of this cycle.
RefreshDeparturesAccumulates(m, mt, res, tz) ==
    IF res.err # Nil
    THEN [manager |-> m, metrics |-> Inc(mt, "departures"), err |-> res.err, calls |-> <<>>]
    ELSE LET r == LoadData(res.file, makeDepartureLineConsumer, tz) IN
         IF r.err # Nil
         THEN [manager |-> m, metrics |-> Inc(mt, "departures"),
               err |-> r.err, calls |-> r.consumer.calls]
         ELSE [manager |-> UpdateDepartures(m, m.departures \o r.consumer.data),
               metrics |-> Observe(mt, "departures"),
               err |-> Nil, calls |-> r.consumer.calls]

RefreshDepartures(m, mt, res, tz) ==
    IF res.err # Nil
    THEN [manager |-> m, metrics |-> Inc(mt, "departures"), err |-> res.err, calls |-> <<>>]
    ELSE LET r == LoadData(res.file, makeDepartureLineConsumer, tz) IN
         IF r.err # Nil
         THEN [manager |-> m, metrics |-> Inc(mt, "departures"),
               err |-> r.err, calls |-> r.consumer.calls]
         ELSE [manager |-> UpdateDepartures(m, r.consumer.data),
               metrics |-> Observe(mt, "departures"),
               err |-> Nil, calls |-> r.consumer.calls]

ParkingsOptions == [nbFields |-> ParkingsNbFields, skipFirstLine |-> TRUE]

\* RefreshParkings calling UpdateParkings only when the consumer holds a
\* record.
RefreshParkingsKeepsOnEmpty(m, mt, res, tz) ==
    IF res.err # Nil
    THEN [manager |-> m, metrics |-> Inc(mt, "parkings"), err |-> res.err, calls |-> <<>>]
    ELSE LET r == LoadDataWithOptions(res.file, makeParkingLineConsumer,
                                      ParkingsOptions, tz) IN
         IF r.err # Nil
         THEN [manager |-> m, metrics |-> Inc(mt, "parkings"),
               err |-> r.err, calls |-> r.consumer.calls]
         ELSE [manager |-> IF r.consumer.data = <<>> THEN m
                           ELSE UpdateParkings(m, r.consumer.data),
               metrics |-> Observe(mt, "parkings"),
               err |-> Nil, calls |-> r.consumer.calls]

RefreshParkings(m, mt, res, tz) ==
    IF res.err # Nil
    THEN [manager |-> m, metrics |-> Inc(mt, "parkings"), err |-> res.err, calls |-> <<>>]
    ELSE LET r == LoadDataWithOptions(res.file, makeParkingLineConsumer,
                                      ParkingsOptions, tz) IN
         IF r.err # Nil
         THEN [manager |-> m, metrics |-> Inc(mt, "parkings"),
               err |-> r.err, calls |-> r.consumer.calls]
         ELSE [manager |-> UpdateParkings(m, r.consumer.data),
               metrics |-> Observe(mt, "parkings"),
               err |-> Nil, calls |-> r.consumer.calls]

\* RefreshEquipments with the duration observed in a defer: on every return.
RefreshEquipmentsObservesAlways(m, mt, res, tz) ==
    IF res.err # Nil
    THEN [manager |-> m, metrics |-> Observe(Inc(mt, "equipments"), "equipments"),
          err |-> res.err, calls |-> <<>>]
    ELSE LET r == LoadXmlData(res.file, tz) IN
         IF r.err # Nil
         THEN [manager |-> m, metrics |-> Observe(Inc(mt, "equipments"), "equipments"),
               err |-> r.err, calls |-> <<>>]
         ELSE [manager |-> UpdateEquipments(m, r.out),
               metrics |-> Observe(mt, "equipments"),
               err |-> Nil, calls |-> <<>>]

RefreshEquipments(m, mt, res, tz) ==
    IF res.err # Nil
    THEN [manager |-> m, metrics |-> Inc(mt, "equipments"), err |-> res.err, calls |-> <<>>]
    ELSE LET r == LoadXmlData(res.file, tz) IN
         IF r.err # Nil
         THEN [manager |-> m, metrics |-> Inc(mt, "equipments"),
               err |-> r.err, calls |-> <<>>]
         ELSE [manager |-> UpdateEquipments(m, r.out),
               metrics |-> Observe(mt, "equipments"),
               err |-> Nil, calls |-> <<>>]

Refresh(f, m, mt, res, tz) ==
    IF f = "departures" THEN RefreshDepartures(m, mt, res, tz)
    ELSE IF f = "parkings" THEN RefreshParkings(m, mt, res, tz)
    ELSE RefreshEquipments(m, mt, res, tz)

\* ------------------------------------------------------------------ actions
\* The refresh cycles begun so far, over the three feeds.
CyclesStarted ==
    LET n(f) == metrics[f].errors + metrics[f].durations
                + (IF retr[f] = "none" THEN 0 ELSE 1)
    IN  n("departures") + n("parkings") + n("equipments")

\* The flags and environment of a start: locations, one interval for the
\* three feeds, log level, and the error of viper.Unmarshal on them.
Flags(uris, interval, lvl, unmarshal) ==
    [URIStr |-> uris, refresh |-> [f \in Feeds |-> interval], LogLevel |-> lvl,
     unmarshal |-> unmarshal, URI |-> [f \in Feeds |-> NoURL]]

AllSftp == [f \in Feeds |-> SftpLocation(f)]

\* The starts: three sftp feeds with either interval; no location at all; a
\* log level logrus does not know; values viper cannot unmarshal; departures
\* given the location string of parkings, a file, with equipments on ftp; a
\* departures location that does not parse, no parkings location and
\* equipments on a file.
StartFlags ==
    {Flags(AllSftp, i, "debug", Nil) : i \in Intervals}
    \cup {Flags([f \in Feeds |-> EmptyLocation], 30000, "debug", Nil),
          Flags(AllSftp, 30000, "verbose", Nil),
          Flags(AllSftp, 30000, "debug", "ErrUnmarshal"),
          Flags([departures |-> FileLocation("parkings"),
                 parkings   |-> FileLocation("parkings"),
                 equipments |-> FtpLocation("equipments")], 30000, "debug", Nil),
          Flags([departures |-> BadLocation("departures"),
                 parkings   |-> EmptyLocation,
                 equipments |-> FileLocation("equipments")], 30000, "debug", Nil)}

Init ==
    /\ config \in StartFlags
    /\ mainpc = "GetConfig"
    /\ loop = [f \in Feeds |-> "none"]
    /\ retr = [f \in Feeds |-> "none"]
    /\ manager = NewDataManager
    /\ metrics = [f \in Feeds |-> [errors |-> 0, durations |-> 0]]
    /\ last = NoCycle
    /\ got = [r \in Readers |-> NoGet]
    /\ input = NoInput

\* main calls GetConfig: logrus.Fatalf ends the process on its error.
GetConfig ==
    /\ mainpc = "GetConfig"
    /\ LET r == GetConfigOf(config) IN
        /\ config' = r.config
        /\ mainpc' = IF r.err # Nil THEN "exited" ELSE "initLog"
    /\ UNCHANGED <<loop, retr, manager, metrics, last, got, input>>

\* A main whose go statements come before its first loads: the loops are
\* started when initLog returns.
initLogThenGo ==
    /\ mainpc = "initLog"
    /\ IF ParseLevel(config.LogLevel) # Nil
       THEN /\ mainpc' = "exited"
            /\ retr' = retr
            /\ loop' = loop
       ELSE /\ mainpc' = "departures"
            /\ retr' = [retr EXCEPT !["departures"] = "getFile"]
            /\ loop' = [f \in Feeds |-> "started"]
    /\ UNCHANGED <<config, manager, metrics, last, got, input>>

\* main calls initLog: logrus.Fatal ends the process on a level that does not
\* parse. Otherwise main goes on to its call of RefreshDepartures, which
\* calls getFile.
initLog ==
    /\ mainpc = "initLog"
    /\ IF ParseLevel(config.LogLevel) # Nil
       THEN /\ mainpc' = "exited"
            /\ retr' = retr
       ELSE /\ mainpc' = "departures"
            /\ retr' = [retr EXCEPT !["departures"] = "getFile"]
    /\ UNCHANGED <<config, loop, manager, metrics, last, got, input>>

\* getFile never returns: the host or the disk it asked never answers.
Stall(f) ==
    /\ retr[f] = "getFile"
    /\ config.URI[f].Scheme \in {"sftp", "file"}
    /\ retr' = [retr EXCEPT ![f] = "stalled"]
    /\ UNCHANGED <<config, mainpc, loop, manager, metrics, last, got, input>>

\* What main does after a startup load returns: the next load, or the go
\* statements.
AfterLoad(f) ==
    IF f = "departures" THEN "parkings"
    ELSE IF f = "parkings" THEN "equipments" ELSE "go"

\* RefreshReturns with a loop that returns when its Refresh returned an error.
RefreshReturnsLoopEndsOnError(f, res, tz) ==
    /\ retr[f] = "getFile"
    /\ LET file == getFile(config.URI[f], res)
           r == Refresh(f, manager, metrics, file, tz) IN
        /\ manager' = r.manager
        /\ metrics' = r.metrics
        /\ last' = [feed |-> f, err |-> r.err, calls |-> r.calls, opened |-> file.opened]
        /\ IF mainpc = f
           THEN /\ mainpc' = AfterLoad(f)
                /\ retr' = [g \in Feeds |-> IF g = f THEN "none"
                                             ELSE IF g = AfterLoad(f) THEN "getFile"
                                             ELSE retr[g]]
                /\ loop' = loop
           ELSE /\ loop' = [loop EXCEPT ![f] = IF r.err = Nil THEN "sleep" ELSE "returned"]
                /\ retr' = [retr EXCEPT ![f] = "none"]
                /\ mainpc' = mainpc
    /\ UNCHANGED <<config, got, input>>

\* RefreshReturns with a main that ends the process when a startup load
\* returns an error.
RefreshReturnsFatalAtStartup(f, res, tz) ==
    /\ retr[f] = "getFile"
    /\ LET file == getFile(config.URI[f], res)
           r == Refresh(f, manager, metrics, file, tz) IN
        /\ manager' = r.manager
        /\ metrics' = r.metrics
        /\ last' = [feed |-> f, err |-> r.err, calls |-> r.calls, opened |-> file.opened]
        /\ IF mainpc = f
           THEN /\ mainpc' = IF r.err = Nil THEN AfterLoad(f) ELSE "exited"
                /\ retr' = [h \in Feeds |-> IF h = f THEN "none"
                                             ELSE IF h = AfterLoad(f) /\ r.err = Nil
                                             THEN "getFile" ELSE retr[h]]
                /\ loop' = loop
           ELSE /\ loop' = [loop EXCEPT ![f] = "sleep"]
                /\ retr' = [retr EXCEPT ![f] = "none"]
                /\ mainpc' = mainpc
    /\ UNCHANGED <<config, got, input>>

\* The source answers res to getFile and the Refresh function of feed f runs
\* to its end; then its caller goes on: main to its next statement, a loop to
\* its sleep.
RefreshReturns(f, res, tz) ==
    /\ retr[f] = "getFile"
    /\ LET file == getFile(config.URI[f], res)
           r == Refresh(f, manager, metrics, file, tz) IN
        /\ manager' = r.manager
        /\ metrics' = r.metrics
        /\ last' = [feed |-> f, err |-> r.err, calls |-> r.calls, opened |-> file.opened]
    /\ IF mainpc = f
       THEN /\ mainpc' = AfterLoad(f)
            /\ retr' = [g \in Feeds |-> IF g = f THEN "none"
                                         ELSE IF g = AfterLoad(f) THEN "getFile"
                                         ELSE retr[g]]
            /\ loop' = loop
       ELSE /\ loop' = [loop EXCEPT ![f] = "sleep"]
            /\ retr' = [retr EXCEPT ![f] = "none"]
            /\ mainpc' = mainpc
    /\ UNCHANGED <<config, got, input>>

\* main without the go keyword: it calls RefreshDepartureLoop itself and is
\* in it from then on.
GoInline ==
    /\ mainpc = "go"
    /\ mainpc' = "RefreshDepartureLoop"
    /\ loop' = [loop EXCEPT !["departures"] = "started"]
    /\ UNCHANGED <<config, retr, manager, metrics, last, got, input>>

\* The three go statements of main.
Go ==
    /\ mainpc = "go"
    /\ mainpc' = "Run"
    /\ loop' = [f \in Feeds |-> "started"]
    /\ UNCHANGED <<config, retr, manager, metrics, last, got, input>>

\* SetupRouter(manager, nil).Run(): the serving layer accepts requests.
Run ==
    /\ mainpc = "Run"
    /\ mainpc' = "serving"
    /\ UNCHANGED <<config, loop, retr, manager, metrics, last, got, input>>

\* A loop calls its Refresh function, which calls getFile.
CallRefresh(f) ==
    /\ CyclesStarted < MaxCycles
    /\ loop' = [loop EXCEPT ![f] = "refreshing"]
    /\ retr' = [retr EXCEPT ![f] = "getFile"]

\* RefreshDepartureLoop without its guard on the interval.
RefreshDepartureLoopUnguarded ==
    /\ loop["departures"] = "started"
    /\ CallRefresh("departures")
    /\ UNCHANGED <<config, mainpc, manager, metrics, last, got, input>>

RefreshDepartureLoop ==
    /\ loop["departures"] = "started"
    /\ IF config.refresh["departures"] < DisableBelowMs
       THEN /\ loop' = [loop EXCEPT !["departures"] = "returned"]
            /\ retr' = retr
       ELSE CallRefresh("departures")
    /\ UNCHANGED <<config, mainpc, manager, metrics, last, got, input>>

RefreshParkingLoop ==
    /\ loop["parkings"] = "started"
    /\ CallRefresh("parkings")
    /\ UNCHANGED <<config, mainpc, manager, metrics, last, got, input>>

RefreshEquipmentLoop ==
    /\ loop["equipments"] = "started"
    /\ CallRefresh("equipments")
    /\ UNCHANGED <<config, mainpc, manager, metrics, last, got, input>>

\* time.Sleep returns and the loop's next iteration calls Refresh.
Wake(f) ==
    /\ loop[f] = "sleep"
    /\ CallRefresh(f)
    /\ UNCHANGED <<config, mainpc, manager, metrics, last, got, input>>

\* A request handler of the serving layer reads a feed's snapshot.
Get(r, f) ==
    /\ mainpc = "serving"
    /\ got' = [got EXCEPT ![r] = [feed |-> f, data |-> Records(f, GetSnapshot(manager, f))]]
    /\ UNCHANGED <<config, mainpc, loop, retr, manager, metrics, last, input>>

Next ==
    \/ GetConfig
    \/ initLog
    \/ \E f \in Feeds : Stall(f)
    \/ \E f \in Feeds : \E in \in Inputs(f) : RefreshReturns(f, in.res, in.tz)
    \/ Go
    \/ Run
    \/ RefreshDepartureLoop
    \/ RefreshParkingLoop
    \/ RefreshEquipmentLoop
    \/ \E f \in Feeds : Wake(f)
    \/ \E r \in Readers, f \in Feeds : Get(r, f)

Spec == Init /\ [][Next]_vars

\* The steps of one feed's loop, and those of main.
LoopEnter(f) ==
    IF f = "departures" THEN RefreshDepartureLoop
    ELSE IF f = "parkings" THEN RefreshParkingLoop ELSE RefreshEquipmentLoop

CycleReturns(f) == \E in \in Inputs(f) : RefreshReturns(f, in.res, in.tz)

LoopStep(f) == LoopEnter(f) \/ Wake(f) \/ (loop[f] = "refreshing" /\ CycleReturns(f))

MainStep == GetConfig \/ initLog \/ Go \/ Run \/ \E f \in Feeds : mainpc = f /\ CycleReturns(f)

\* Every goroutine that can take a step eventually takes one, and a getFile
\* that does not stall returns.
Fairness ==
    /\ WF_vars(MainStep)
    /\ \A f \in Feeds : WF_vars(LoopEnter(f)) /\ WF_vars(Wake(f)) /\ WF_vars(CycleReturns(f))

\* The inputs of one batch: the source of a feed never changes what it holds.
SteadyInputs(f) ==
    {in \in Inputs(f) :
        \/ in.res.err # Nil \/ ~in.tz
        \/ IF f = "equipments" THEN in.res.file.Info.Date = <<2024, 3, 11>>
           ELSE \A i \in 1..Len(in.res.file) : in.res.file[i].tag = 1}

\* The goroutines of the process without the request handlers, which write
\* none of the state a loop reads, on sources that hold one batch.
LoopsNext ==
    \/ GetConfig \/ initLog \/ Go \/ Run
    \/ \E f \in Feeds : Stall(f)
    \/ \E f \in Feeds : LoopEnter(f) \/ Wake(f)
    \/ \E f \in Feeds : \E in \in SteadyInputs(f) : RefreshReturns(f, in.res, in.tz)

FairSpec == Init /\ [][LoopsNext]_vars /\ Fairness

\* ------------------------------------------------- one cycle on every input
\* The process after its startup loads, all three failed or all three loaded,
\* with main serving and one loop in its first cycle, whose getFile is about
\* to return the input: every input of the bounded sets.
ZeroMetrics == [f \in Feeds |-> [errors |-> 0, durations |-> 0]]

\* The configuration of the process in its loops: the location of feed f is
\* loc, the other two are on sftp.
CycleConfig(f, loc) ==
    GetConfigOf(Flags([g \in Feeds |-> IF g = f THEN loc ELSE SftpLocation(g)],
                      30000, "debug", Nil)).config

StartupInput(f, loaded) ==
    IF ~loaded THEN RetrievalError
    ELSE IF f = "equipments"
    THEN [err |-> Nil,
          file |-> [charset |-> "UTF-8", wellFormed |-> TRUE,
                    Info |-> [Date |-> <<2024, 3, 11>>, Hour |-> <<7, 15, 30>>],
                    Lines |-> Build(<<[ID |-> 1, status |-> "down", ok |-> TRUE],
                                      [ID |-> 2, status |-> "down", ok |-> TRUE]>>,
                                    <<"line", "station">>, 1)]]
    ELSE [err |-> Nil, file |-> MkFile(2, <<GoodLine, GoodLine, GoodLine>>)]

StartupFile(cfg, f, loaded) == getFile(cfg.URI[f], StartupInput(f, loaded))

Startup(cfg, loaded) ==
    LET d == RefreshDepartures(NewDataManager, ZeroMetrics,
                               StartupFile(cfg, "departures", loaded), TRUE)
        p == RefreshParkings(d.manager, d.metrics, StartupFile(cfg, "parkings", loaded), TRUE)
    IN  RefreshEquipments(p.manager, p.metrics, StartupFile(cfg, "equipments", loaded), TRUE)

\* The inputs of the whole program's cycles, over the three feeds.
SlimInputs == DeparturesInputs \cup ParkingsInputs \cup EquipmentsInputs

\* Every input with the feed on sftp; the inputs of the whole program with
\* it on a file, on ftp or without a location.
CycleInit ==
    /\ \/ /\ input \in AllInputs
          /\ config = CycleConfig(input.feed, SftpLocation(input.feed))
       \/ /\ input \in SlimInputs
          /\ config \in {CycleConfig(input.feed, loc) :
                            loc \in {FileLocation(input.feed), FtpLocation(input.feed),
                                     EmptyLocation}}
    /\ \E loaded \in BOOLEAN :
          /\ manager = Startup(config, loaded).manager
          /\ metrics = Startup(config, loaded).metrics
          /\ last = [feed |-> "equipments", err |-> Startup(config, loaded).err,
                     calls |-> <<>>,
                     opened |-> StartupFile(config, "equipments", loaded).opened]
    /\ mainpc = "serving"
    /\ loop = [f \in Feeds |-> IF f = input.feed THEN "refreshing" ELSE "started"]
    /\ retr = [f \in Feeds |-> IF f = input.feed THEN "getFile" ELSE "none"]
    /\ got = [r \in Readers |-> NoGet]

CycleNext == RefreshReturns(input.feed, input.res, input.tz)

CycleSpec == CycleInit /\ [][CycleNext]_vars

\* ------------------------------------------- one cycle on every header date
\* The same process, its equipments loop in its first cycle, on a document of
\* one equipment whose header holds every date and hour string of the sets:
\* each month, its last days and those past its end, the days Europe/Paris
\* changes its clocks, and hours before, in and after the skipped one.
HeaderYears == {2023, 2024}
HeaderMonths == 0..13
HeaderDays == {0, 1, 26, 28, 29, 30, 31, 32}
HeaderDates == {<<y, m, d>> : y \in HeaderYears, m \in HeaderMonths, d \in HeaderDays}
HeaderHours == {<<0, 0, 0>>, <<1, 59, 59>>, <<2, 30, 0>>, <<3, 0, 0>>, <<23, 59, 59>>,
                <<24, 0, 0>>, <<12, 60, 0>>}

HeaderDocs ==
    [charset : {"UTF-8"}, wellFormed : {TRUE},
     Info : [Date : HeaderDates, Hour : HeaderHours],
     Lines : {Build(<<[ID |-> 1, status |-> "up", ok |-> TRUE]>>, <<"line">>, 1)}]

DateInit ==
    /\ input \in {[feed |-> "equipments", res |-> [err |-> Nil, file |-> d], tz |-> TRUE] :
                     d \in HeaderDocs}
    /\ config = CycleConfig("equipments", SftpLocation("equipments"))
    /\ \E loaded \in BOOLEAN :
          /\ manager = Startup(config, loaded).manager
          /\ metrics = Startup(config, loaded).metrics
          /\ last = [feed |-> "equipments", err |-> Startup(config, loaded).err,
                     calls |-> <<>>,
                     opened |-> StartupFile(config, "equipments", loaded).opened]
    /\ mainpc = "serving"
    /\ loop = [f \in Feeds |-> IF f = input.feed THEN "refreshing" ELSE "started"]
    /\ retr = [f \in Feeds |-> IF f = input.feed THEN "getFile" ELSE "none"]
    /\ got = [r \in Readers |-> NoGet]

DateSpec == DateInit /\ [][CycleNext]_vars

\* ------------------------------------------------------------------- claims
\* The step in which the refresh cycle of feed f returns to its caller.
Returns(f) == retr[f] = "getFile" /\ retr'[f] = "none"

\* C1: a snapshot changes only in the step in which a cycle of its feed
\* returns without error, and a cycle that returns an error (retrieval or
\* parsing) leaves the snapshot of every feed as it was: the visible snapshot
\* is always that of the feed's most recent successful cycle.
C1_FailedCycleKeepsSnapshot ==
    [][/\ \A f \in Feeds :
            manager'[f] # manager[f] => Returns(f) /\ last'.feed = f /\ last'.err = Nil
       /\ \A f \in Feeds :
            Returns(f) /\ last'.err # Nil => manager' = manager]_vars

\* C1 witness: a departures cycle has failed while parsing, after consuming
\* a record, and the snapshot of an earlier cycle is still there.
C1_Witness ==
    /\ last.feed = "departures" /\ last.err = "ErrFieldCount" /\ last.calls # <<>>
    /\ manager.departures # <<>>
    /\ metrics.departures.errors = 1 /\ metrics.departures.durations = 1

\* The batch a record of feed f belongs to: the tag its line carried, or for
\* an equipment the header timestamp of its document.
Batch(f, x) == IF f = "equipments" THEN x.updatedAt ELSE x.tag

\* C2: whatever a reader's get returned, all its records are of one batch:
\* no get sees records of two batches of the writer.
C2_GetSeesOneBatch ==
    \A r \in Readers :
        got[r].feed # "none" =>
            \A x, y \in got[r].data :
                Batch(got[r].feed, x) = Batch(got[r].feed, y)

\* C2 witness: a reader holds the two records of departures batch 1 while the
\* writer has already replaced them by the two records of batch 2.
C2_Witness ==
    \E r \in Readers :
        /\ got[r].feed = "departures"
        /\ Cardinality(got[r].data) = 2 /\ \A x \in got[r].data : x.tag = 1
        /\ Len(manager.departures) = 2 /\ manager.departures[1].tag = 2

\* The departures cycle of the one-cycle specification has returned.
CycleDone(f) == input.feed = f /\ retr[f] = "none"

\* getFile returned bytes to the cycle, which went on to the loader.
Loaded(f) == CycleDone(f) /\ getFile(config.URI[f], input.res).err = Nil

HasBadFieldCount(file) == \E i \in 1..Len(file) : file[i].nf # DeparturesNbFields

NoTerminate(calls) == \A i \in 1..Len(calls) : calls[i].op # "Terminate"

\* C3: a departures cycle whose file has a record of a field count other than
\* 8, wherever it is, returns an error, never calls Terminate and leaves the
\* departures snapshot as it was.
C3_BadFieldCountRejectsBatch ==
    [][(input.feed = "departures" /\ getFile(config.URI.departures, input.res).err = Nil
        /\ HasBadFieldCount(input.res.file) /\ Returns("departures"))
       => /\ last'.err # Nil
          /\ NoTerminate(last'.calls)
          /\ manager'.departures = manager.departures]_vars

\* C3 witness: the third record of three is the bad one, the first two were
\* consumed, the load failed on the field count and the earlier snapshot of
\* three records is still visible.
C3_Witness ==
    /\ Loaded("departures")
    /\ Len(input.res.file) = 3 /\ input.res.file[3].nf = 7
    /\ last.err = "ErrFieldCount" /\ Len(last.calls) = 2
    /\ Len(manager.departures) = 3 /\ manager.departures[1].tag = 2
    /\ input.res.file[1].tag = 1

\* The ids of the records passed to Consume, in the order of the calls.
RECURSIVE ConsumedIds(_)
ConsumedIds(calls) ==
    IF calls = <<>> THEN <<>>
    ELSE IF Head(calls).op = "Consume" THEN <<Head(calls).id>> \o ConsumedIds(Tail(calls))
    ELSE ConsumedIds(Tail(calls))

\* The ids a complete load passes: all of them, or all but the first.
ExpectedIds(f, file) ==
    IF f = "parkings" THEN [i \in 1..(IF Len(file) = 0 THEN 0 ELSE Len(file) - 1) |-> i + 1]
    ELSE [i \in 1..Len(file) |-> i]

IsPrefix(s, t) == Len(s) <= Len(t) /\ \A i \in 1..Len(s) : s[i] = t[i]

AllAccepted(file) == \A i \in 1..Len(file) : file[i].ok

\* C4, as claimed: a parkings file whose records the consumer accepts is
\* loaded whatever the field counts of its lines: no error, every record after
\* the header consumed, and the snapshot replaced by them.
C4_ParkingsFieldCountNotEnforced ==
    (Loaded("parkings") /\ input.tz /\ AllAccepted(input.res.file))
    => /\ last.err = Nil
       /\ ConsumedIds(last.calls) = ExpectedIds("parkings", input.res.file)
       /\ manager.parkings =
             [i \in 1..Len(ExpectedIds("parkings", input.res.file)) |->
                 NewRecord(input.res.file[i + 1])]

\* C5, as claimed: for every input, all the records (all but the first with
\* skipFirstLine) are passed to Consume, once each and in order. It is stated
\* here on the inputs that cannot raise a read error: records of 8 fields, on
\* a host with a timezone database.
C5_EveryRecordConsumed ==
    \A f \in {"departures", "parkings"} :
        (Loaded(f) /\ input.tz /\ ~HasBadFieldCount(input.res.file))
        => ConsumedIds(last.calls) = ExpectedIds(f, input.res.file)

\* C5, amended: when the load returns nil, the records passed to Consume are
\* all the records (all but the first with skipFirstLine), once each and in
\* input order; when it returns an error, they are a prefix of those.
C5_CompleteLoadConsumesAll ==
    \A f \in {"departures", "parkings"} :
        Loaded(f)
        => /\ IsPrefix(ConsumedIds(last.calls), ExpectedIds(f, input.res.file))
           /\ last.err = Nil
                => ConsumedIds(last.calls) = ExpectedIds(f, input.res.file)

\* C5 witness: a parkings file of three lines was loaded: the header was
\* skipped, lines 2 and 3 consumed in that order.
C5_Witness ==
    /\ Loaded("parkings") /\ Len(input.res.file) = 3
    /\ last.err = Nil /\ ConsumedIds(last.calls) = <<2, 3>>

\* C6: a load that reaches the end of input calls Terminate once, as its last
\* call; a load that returns an error never calls it.
C6_TerminateOnceAtEnd ==
    \A f \in {"departures", "parkings"} :
        Loaded(f)
        => IF last.err = Nil
           THEN /\ last.calls # <<>>
                /\ last.calls[Len(last.calls)] = TerminateCall
                /\ NoTerminate(SubSeq(last.calls, 1, Len(last.calls) - 1))
           ELSE NoTerminate(last.calls)

\* C6 witness: three departures consumed and then Terminate.
C6_Witness ==
    /\ Loaded("departures") /\ last.err = Nil
    /\ Len(last.calls) = 4 /\ last.calls[4] = TerminateCall
    /\ ConsumedIds(last.calls) = <<1, 2, 3>>

\* The last element of the traversal that carries identifier id.
LastOccurrence(es, id) ==
    es[CHOOSE i \in 1..Len(es) :
          es[i].ID = id /\ \A j \in (i + 1)..Len(es) : es[j].ID # id]

\* C7: the collection of a loaded document holds, for each identifier of the
\* hierarchy, exactly one record, with the fields of the identifier's last
\* element in traversal order, and no other record.
C7_OneRecordPerIdLastWins ==
    (Loaded("equipments") /\ last.err = Nil)
    => LET es  == Traversal(input.res.file.Lines)
           ids == {es[i].ID : i \in 1..Len(es)}
       IN  /\ \A x \in manager.equipments : x.ID \in ids
           /\ \A id \in ids :
                 /\ Cardinality({x \in manager.equipments : x.ID = id}) = 1
                 /\ \A x \in manager.equipments :
                       x.ID = id => x.status = LastOccurrence(es, id).status

\* C7 witness: identifier 1 occurs under two lines, up and then down, and the
\* collection is the single record of the later element.
C7_Witness ==
    /\ Loaded("equipments") /\ last.err = Nil
    /\ Len(input.res.file.Lines) = 2
    /\ LET es == Traversal(input.res.file.Lines) IN
          /\ Len(es) = 2 /\ es[1].ID = 1 /\ es[2].ID = 1
          /\ es[1].status = "up" /\ es[2].status = "down"
    /\ Cardinality(manager.equipments) = 1
    /\ \A x \in manager.equipments : x.status = "down"

\* Nothing but the model's bound on cycles, its own stall or its own end
\* keeps the loop of feed g from its next step.
CanProceed(g) ==
    \/ ENABLED LoopStep(g)
    \/ retr[g] = "stalled" \/ loop[g] = "returned" \/ CyclesStarted >= MaxCycles

CanRead == \A r \in Readers, f \in Feeds : ENABLED Get(r, f)

\* C8, as claimed: wherever a feed's retrieval is stalled, the startup loads
\* included, the cycles of the other two feeds can proceed and the serving
\* layer is started or can still be, and reads.
C8_StallBlocksOnlyItsFeed ==
    \A f \in Feeds :
        retr[f] = "stalled"
        => /\ \A g \in Feeds \ {f} :
                 \/ CanProceed(g)
                 \/ mainpc = g /\ ENABLED CycleReturns(g)
           /\ IF mainpc = "serving" THEN CanRead ELSE ENABLED MainStep

\* C8, amended: a retrieval stalled in a feed's background loop blocks that
\* loop only: the other loops have been started and can proceed, and the
\* serving layer is started, or about to be, and reads. A retrieval stalled in
\* a startup load blocks main: no loop is started, no other feed's cycle can
\* run and the serving layer is never started.
C8_StallInLoopBlocksOnlyItsLoop ==
    \A f \in Feeds :
        retr[f] = "stalled"
        => IF mainpc = f
           THEN /\ ~ENABLED MainStep
                /\ \A g \in Feeds : loop[g] = "none" /\ ~ENABLED LoopStep(g)
                /\ \A g \in Feeds \ {f} : ~ENABLED CycleReturns(g)
                /\ ~CanRead
           ELSE /\ \A g \in Feeds \ {f} : loop[g] # "none" /\ CanProceed(g)
                /\ IF mainpc = "serving" THEN CanRead ELSE ENABLED Run

\* C8 witness: the parkings loop is stalled, the equipments loop has since
\* completed a cycle, and a reader has read the parkings snapshot.
C8_Witness ==
    /\ retr.parkings = "stalled" /\ loop.parkings = "refreshing"
    /\ loop.equipments = "sleep" /\ last.feed = "equipments"
    /\ \E r \in Readers : got[r].feed = "parkings"

\* C9: in a loop, a cycle that returns, with an error or without, is followed
\* by the sleep, the sleep is left only into another call of Refresh, no step
\* ends a running loop, and under fairness no loop stays asleep for ever: it
\* is in a call of Refresh again and again (as long as the model's bound on
\* cycles lets it).
C9_LoopGoesOnAfterEveryCycle ==
    /\ [][\A f \in Feeds :
            /\ (loop[f] = "refreshing" /\ Returns(f)) => loop'[f] = "sleep"
            /\ loop[f] = "sleep" => loop'[f] \in {"sleep", "refreshing"}
            /\ loop[f] \in {"refreshing", "sleep"} => loop'[f] # "returned"]_vars
    /\ \A f \in Feeds : []<>(loop[f] # "sleep" \/ CyclesStarted >= MaxCycles)

\* C9 witness: the parkings loop is in a new cycle after a cycle of its own
\* that failed (the startup load had failed too).
C9_Witness ==
    /\ loop.parkings = "refreshing" /\ retr.parkings = "getFile"
    /\ metrics.parkings.errors = 2 /\ metrics.parkings.durations = 0

\* C10: with a departures interval below one second, once the startup load
\* of departures has returned no step begins a departures cycle or changes
\* the departures snapshot or metrics; the parkings and equipments loops
\* leave their start only into a cycle, and never return.
C10_SubSecondDisablesDeparturesOnly ==
    [][/\ (config.refresh.departures < DisableBelowMs
           /\ mainpc \notin {"GetConfig", "initLog", "departures"})
          => /\ retr'.departures = "none"
             /\ loop'.departures \in {"none", "started", "returned"}
             /\ manager'.departures = manager.departures
             /\ metrics'.departures = metrics.departures
       /\ \A f \in {"parkings", "equipments"} :
            /\ loop'[f] # "returned"
            /\ (loop[f] = "started" /\ loop'[f] # "started")
                 => loop'[f] = "refreshing" /\ retr'[f] = "getFile"]_vars

\* C10 witness: all intervals are half a second; the departures loop has
\* returned with the snapshot of the startup load, the parkings loop has
\* completed a cycle and the equipments loop is in one.
C10_Witness ==
    /\ \A f \in Feeds : config.refresh[f] = 500
    /\ loop.departures = "returned" /\ manager.departures # <<>>
    /\ metrics.departures.durations = 1 /\ metrics.departures.errors = 0
    /\ loop.parkings = "sleep" /\ metrics.parkings.durations = 2
    /\ loop.equipments = "refreshing"

\* The refresh cycles of feed f that have returned.
Completed(f) == metrics[f].errors + metrics[f].durations

\* The startup loads of main that have returned when main is at pc.
LoadsDone(pc) ==
    IF pc = "departures" THEN {}
    ELSE IF pc = "parkings" THEN {"departures"}
    ELSE IF pc = "equipments" THEN {"departures", "parkings"}
    ELSE Feeds

\* C11: main makes its three first loads one after the other, departures,
\* parkings, equipments; while it makes them no loop is started and the
\* serving layer is not; a first load that returns, with an error or without,
\* takes main to its next statement, and from its first load on main never
\* ends: it goes on to the go statements and to the serving layer.
C11_FirstLoadsGateStartupAndNeverStopIt ==
    /\ [](mainpc \in {"departures", "parkings", "equipments", "go"}
            => /\ \A f \in Feeds : loop[f] = "none"
               /\ \A f \in Feeds : Completed(f) = IF f \in LoadsDone(mainpc) THEN 1 ELSE 0
               /\ \A f \in Feeds : retr[f] # "none" => mainpc = f)
    /\ []((mainpc \in {"Run", "serving"} \/ \E f \in Feeds : loop[f] # "none")
            => \A f \in Feeds : Completed(f) >= 1)
    /\ [](mainpc \in {"go", "Run"} => ENABLED MainStep)
    /\ [][/\ \A f \in Feeds : (mainpc = f /\ Returns(f)) => mainpc' = AfterLoad(f)
          /\ mainpc = "go" /\ mainpc' # "go"
               => mainpc' = "Run" /\ \A f \in Feeds : loop'[f] = "started"
          /\ mainpc = "Run" /\ mainpc' # "Run" => mainpc' = "serving"
          /\ mainpc' = "exited" => mainpc \in {"GetConfig", "initLog", "exited"}]_vars

\* C11 witness: the three first loads failed, and main serves while the
\* parkings loop is in its first cycle.
C11_Witness ==
    /\ mainpc = "serving"
    /\ \A f \in Feeds : metrics[f] = [errors |-> 1, durations |-> 0]
    /\ loop.parkings = "refreshing" /\ loop.equipments = "started"

\* The callers of feed f's Refresh function that are inside it: main in its
\* first load, the feed's loop in a cycle.
InProgress(f) ==
    (IF mainpc = f THEN 1 ELSE 0) + (IF loop[f] = "refreshing" THEN 1 ELSE 0)

\* C12: for each feed at most one caller is inside its Refresh function, from
\* the first load on, and a caller enters it only when none is inside and the
\* getFile of the previous cycle has returned.
C12_OneCycleOfAFeedAtATime ==
    /\ [](\A f \in Feeds :
              /\ InProgress(f) <= 1
              /\ retr[f] # "none" <=> InProgress(f) = 1)
    /\ [][\A f \in Feeds :
              (InProgress(f)' > InProgress(f) \/ (retr[f] # "getFile" /\ retr'[f] = "getFile"))
              => InProgress(f) = 0 /\ retr[f] = "none"]_vars

\* C12 witness: the departures loop is in its second cycle, after the first
\* load of main and a first cycle of its own, while its getFile is stalled.
C12_Witness ==
    /\ loop.departures = "refreshing" /\ retr.departures = "stalled"
    /\ Completed("departures") = 2 /\ mainpc = "serving"

\* C13, as claimed: a cycle of a feed that has had a cycle before, the first
\* load of main included, begins only out of the sleep of the feed's loop.
C13_SleepBetweenConsecutiveCycles ==
    [][\A f \in Feeds :
          (retr[f] = "none" /\ retr'[f] = "getFile" /\ Completed(f) >= 1)
          => loop[f] = "sleep"]_vars

\* C14: the metrics change only in the step in which a cycle returns, and in
\* that step only those of the cycle's feed: one more observed duration and
\* the same error counter when the cycle returns nil, the error counter one
\* higher and the same observed durations when it returns an error.
C14_OneMetricEventPerCycle ==
    [][/\ metrics' # metrics => \E f \in Feeds : Returns(f)
       /\ \A f \in Feeds :
             Returns(f)
             => /\ last'.feed = f
                /\ \A g \in Feeds \ {f} : metrics'[g] = metrics[g]
                /\ metrics'[f] =
                      IF last'.err = Nil
                      THEN [metrics[f] EXCEPT !.durations = @ + 1]
                      ELSE [metrics[f] EXCEPT !.errors = @ + 1]]_vars

\* C14 witness: equipments has one observed duration, from its first load,
\* and one error, from a cycle whose document declared an unknown charset;
\* the other feeds have their first load only.
C14_Witness ==
    /\ last.feed = "equipments" /\ last.err = "Unknown Charset"
    /\ metrics.equipments = [errors |-> 1, durations |-> 1]
    /\ Completed("departures") = 1 /\ Completed("parkings") = 1

\* C15: a cycle of a feed whose location has a scheme other than sftp and
\* file (ftp, or none) returns the unsupported-protocol error whatever the
\* source holds, its getFile opens neither a file nor a connection, the error
\* counter of the feed goes up by one and nothing else changes in the metrics
\* or in the store.
C15_UnsupportedSchemeOnlyCountsAnError ==
    [][\A f \in Feeds :
          (config.URI[f].Scheme \notin {"sftp", "file"} /\ Returns(f))
          => /\ last'.feed = f /\ last'.err = "Unsupported protocols"
             /\ last'.opened = "none" /\ last'.calls = <<>>
             /\ manager' = manager
             /\ metrics' = [metrics EXCEPT ![f].errors = @ + 1]]_vars

\* C15 witness: equipments is on ftp, its source holds a document that would
\* load, and its cycle has returned the error, the second of the feed, while
\* the departures of the first load are still in the store.
C15_Witness ==
    /\ CycleDone("equipments") /\ config.URI.equipments.Scheme = "ftp"
    /\ input.res.err = Nil /\ input.tz
    /\ LoadXmlData(input.res.file, input.tz).err = Nil
    /\ last.err = "Unsupported protocols" /\ last.opened = "none"
    /\ metrics.equipments = [errors |-> 2, durations |-> 0]
    /\ manager.equipments = {} /\ manager.departures # <<>>

\* The equipments cycle of the one-cycle specification returns, on bytes that
\* getFile obtained, on a host with a timezone database.
EquipmentsLoadReturns ==
    /\ input.feed = "equipments" /\ Returns("equipments")
    /\ getFile(config.URI.equipments, input.res).err = Nil /\ input.tz

\* C16: a document that declares a charset other than UTF-8 and ISO-8859-1
\* fails the load with the unknown-charset error, and the cycle leaves the
\* store as it was; a document that declares ISO-8859-1 is loaded as the same
\* document declaring UTF-8 is.
C16_UnknownCharsetFailsTheLoad ==
    [][EquipmentsLoadReturns
       => LET doc == input.res.file IN
          /\ doc.charset \notin {"UTF-8", "ISO-8859-1"}
               => /\ last'.err = "Unknown Charset"
                  /\ manager' = manager
          /\ doc.charset = "ISO-8859-1"
               => LET utf8 == LoadXmlData([doc EXCEPT !.charset = "UTF-8"], input.tz) IN
                  /\ last'.err = utf8.err
                  /\ utf8.err = Nil => manager'.equipments = utf8.out]_vars

\* C16 witness: the document declares UTF-16 and is otherwise sound; the
\* cycle returned the charset error and the two equipments of the first load
\* are still in the store.
C16_Witness ==
    /\ Loaded("equipments") /\ input.tz
    /\ input.res.file.charset = "UTF-16" /\ input.res.file.wellFormed
    /\ CalculateDate(input.res.file.Info).err = Nil
    /\ last.err = "Unknown Charset"
    /\ Cardinality(manager.equipments) = 2
    /\ metrics.equipments = [errors |-> 1, durations |-> 1]

\* A date string of a day that exists, an hour string of a time of day.
ValidDate(s) == s[2] \in 1..12 /\ s[3] >= 1 /\ s[3] <= DaysIn(s[1], s[2])

ValidHour(s) == s[1] \in 0..23 /\ s[2] \in 0..59 /\ s[3] \in 0..59

\* The records of the store all carry timestamp t, and there is one.
StampedWith(m, t) == m.equipments # {} /\ \A x \in m.equipments : x.updatedAt = t

\* C17, as claimed: for every valid date and hour string the load stamps its
\* records with the year, month and day of the date and the hour, minute and
\* second of the hour; when one of the strings does not parse, the load
\* returns an error and the store keeps what it had.
C17_TimestampIsDateAndHour ==
    [][EquipmentsLoadReturns
       => LET d == input.res.file.Info.Date
              h == input.res.file.Info.Hour
          IN  IF ValidDate(d) /\ ValidHour(h)
              THEN /\ last'.err = Nil
                   /\ StampedWith(manager', [year |-> d[1], month |-> d[2], day |-> d[3],
                                             hour |-> h[1], min |-> h[2], sec |-> h[3]])
              ELSE last'.err # Nil /\ manager' = manager]_vars

\* The time of day does not exist on that day in Europe/Paris.
Skipped(d, h) == d[2] = 3 /\ d[3] = LastSundayOfMarch(d[1]) /\ h[1] = 2

\* C17, amended: as claimed, but for a time of day in the hour Europe/Paris
\* skips on the last Sunday of March, which comes out one hour later.
C17_TimestampIsDateAndHourButSkippedHour ==
    [][EquipmentsLoadReturns
       => LET d == input.res.file.Info.Date
              h == input.res.file.Info.Hour
          IN  IF ValidDate(d) /\ ValidHour(h)
              THEN /\ last'.err = Nil
                   /\ StampedWith(manager',
                                  [year |-> d[1], month |-> d[2], day |-> d[3],
                                   hour |-> IF Skipped(d, h) THEN h[1] + 1 ELSE h[1],
                                   min |-> h[2], sec |-> h[3]])
              ELSE last'.err # Nil /\ manager' = manager]_vars

\* C17 witness: the header says 2024-12-31 and 23:59:59, and the record in the
\* store carries exactly that.
C17_Witness ==
    /\ Loaded("equipments")
    /\ input.res.file.Info = [Date |-> <<2024, 12, 31>>, Hour |-> <<23, 59, 59>>]
    /\ StampedWith(manager, [year |-> 2024, month |-> 12, day |-> 31,
                             hour |-> 23, min |-> 59, sec |-> 59])

\* C18, as claimed: the process ends before its loops are started only on a
\* configuration without any location; with a location given, whatever the
\* log level, the location strings and the first loads, no step ends it.
C18_OnlyNoLocationStopsStartup ==
    [][(mainpc # "exited" /\ mainpc' = "exited")
       => noneOf([i \in 1..Len(FeedOrder) |-> config.URIStr[FeedOrder[i]]])]_vars

\* The snapshot made of the records of one delimited file alone: all of them
\* for departures, all but the header for parkings, in file order.
SnapshotOf(f, file) ==
    [i \in 1..Len(ExpectedIds(f, file)) |-> NewRecord(file[ExpectedIds(f, file)[i]])]

\* The snapshot made of one equipment document alone: one record for each
\* identifier of the document, stamped with the document's header.
SnapshotOfDoc(doc) ==
    LET es == Traversal(doc.Lines) IN
    {[ID |-> es[i].ID, status |-> LastOccurrence(es, es[i].ID).status,
      updatedAt |-> CalculateDate(doc.Info).date] : i \in 1..Len(es)}

\* C19: the snapshot a cycle hands to the store is made of the input of that
\* cycle alone: for a delimited feed it is the records of one file, those the
\* cycle's consumer was passed, and for equipments the records of one
\* document; so the records of a snapshot are always of one batch.
C19_SnapshotIsOfOneCycle ==
    /\ [](\A f \in Feeds :
              \A x, y \in Records(f, manager[f]) : Batch(f, x) = Batch(f, y))
    /\ [][\A f \in Feeds :
              (Returns(f) /\ last'.err = Nil)
              => \E in \in Inputs(f) :
                    /\ in.res.err = Nil /\ in.tz
                    /\ IF f = "equipments"
                       THEN /\ Decode(in.res.file).err = Nil
                            /\ manager'[f] = SnapshotOfDoc(in.res.file)
                       ELSE /\ manager'[f] = SnapshotOf(f, in.res.file)
                            /\ ConsumedIds(last'.calls) = ExpectedIds(f, in.res.file)]_vars

\* C19 witness: of three parkings cycles one failed and two succeeded, the
\* last of them just now, and the store holds the two records of that one, of
\* batch 2, and nothing else.
C19_Witness ==
    /\ metrics.parkings = [errors |-> 1, durations |-> 2]
    /\ last.feed = "parkings" /\ last.err = Nil
    /\ Len(manager.parkings) = 2
    /\ \A i \in 1..2 : manager.parkings[i] = [id |-> i + 1, tag |-> 2]

\* The file holds no record for the consumer of feed f: it is empty, or for
\* parkings it is the header line alone.
NoRecordFor(f, file) == file = <<>> \/ (f = "parkings" /\ Len(file) = 1)

\* C20: a cycle of a delimited feed whose getFile obtained a file without any
\* record returns nil: its consumer is passed nothing and then terminated, the
\* snapshot of the feed becomes the empty one, a duration is observed and no
\* error is counted.
C20_EmptyInputIsALoadedSnapshot ==
    [][\A f \in {"departures", "parkings"} :
          (input.feed = f /\ Returns(f) /\ input.tz
           /\ getFile(config.URI[f], input.res).err = Nil
           /\ NoRecordFor(f, input.res.file))
          => /\ last'.err = Nil
             /\ last'.calls = <<TerminateCall>>
             /\ manager'[f] = <<>>
             /\ \A g \in Feeds \ {f} : manager'[g] = manager[g]
             /\ metrics' = [metrics EXCEPT ![f].durations = @ + 1]]_vars

\* C20 witness: the parkings file is its header line alone; the cycle returned
\* nil after the first load had stored records, and the parkings snapshot is
\* now empty, with two durations observed and no error.
C20_Witness ==
    /\ Loaded("parkings") /\ Len(input.res.file) = 1
    /\ last.err = Nil /\ last.calls = <<TerminateCall>>
    /\ manager.parkings = <<>> /\ manager.departures # <<>>
    /\ metrics.parkings = [errors |-> 0, durations |-> 2]

====
